---- MODULE Spec2Model ----
(***************************************************************************)
(* The SQLite storage adapter (src/src/sql_interface.py, SqliteInterface)  *)
(* as a state machine.                                                     *)
(*                                                                         *)
(* The adapter holds one sqlite3 connection for its whole life.  The       *)
(* connection runs in Python's default (legacy) transaction mode: INSERT   *)
(* and UPDATE statements open a transaction implicitly, nothing is durable *)
(* until commit() and nothing is undone until rollback().  The model       *)
(* therefore keeps two copies of the database: `disk`, what has been       *)
(* committed, and `conn`, what the adapter's connection sees (disk plus    *)
(* the statements of the open transaction).                                *)
(*                                                                         *)
(* A value is a string token.  "1" and "2" are the integers 1 and 2,       *)
(* "'1'" and "'2'" the texts '1' and '2', "rec" a text record identifier   *)
(* (Airtable record ids are text), "A" and "B" text data, Null the SQL     *)
(* NULL.                                                                   *)
(***************************************************************************)
EXTENDS Integers, Sequences, FiniteSets, TLC

VARIABLES conn, disk, prev, last, nops, run, runs, fs, built, base, fetched

\* the adapter and its database
dbVars == <<conn, disk, prev, last, nops>>

\* the position of a check_and_add_columns call that is followed step by step;
\* runs is the same for the calls of two adapters on one database file
runVars == <<run, runs>>

\* the file system the adapter is constructed on, and the last construction
fsVars == <<fs, built>>

\* the Airtable base behind the source adapter, and the adapter's last read
srcVars == <<base, fetched>>

vars == <<dbVars, runVars, fsVars, srcVars>>

-----------------------------------------------------------------------------
(* Universe of the inputs *)

TableNames == {"t1", "t2"}
ColNames == {"id", "name", "email"}
ColTypes == {"INTEGER", "TEXT"}
IntVals == {"1", "2"}
TextIds == {"rec"}
DataVals == {"A", "B"}
Null == "NULL"

\* rows of one batch / DataFrame
MaxBatch == 2
\* operations performed on one adapter
MaxOps == 2
\* names in one wanted-column list
MaxWanted == 2

Range(s) == {s[i] : i \in 1..Len(s)}

SeqsUpTo(S, n) == UNION {[1..k -> S] : k \in 0..n}

\* position of column c in the column list cols, 0 when it is not there
ColIndex(cols, c) ==
    IF c \in Range(cols) THEN CHOOSE i \in 1..Len(cols) : cols[i] = c ELSE 0

\* integer value of an integer token (the rowid of an INTEGER PRIMARY KEY row)
IntOf(v) == IF v = "1" THEN 1 ELSE IF v = "2" THEN 2 ELSE 0

-----------------------------------------------------------------------------
(* The database: one record per table name *)

NoTable == [exists |-> FALSE, cols |-> <<>>, types |-> <<>>, pk |-> FALSE, rows |-> <<>>]

\* CREATE TABLE t (id INTEGER PRIMARY KEY, name TEXT [, ...]) followed by
\* INSERTs, as the tests set up an upsert target with raw SQL
RawTable(cols, types, rows) ==
    [exists |-> TRUE, cols |-> cols, types |-> types, pk |-> TRUE, rows |-> rows]

\* value of column c in row r of a table with column list cols
Cell(cols, r, c) == r[ColIndex(cols, c)]

IdsOf(t) == {Cell(t.cols, t.rows[i], "id") : i \in 1..Len(t.rows)}

-----------------------------------------------------------------------------
(* Errors, by exception class and message *)

ErrNotFound == "ValueError: table does not exist"
ErrExists == "ValueError: table already exists"
ErrNoColumn == "OperationalError: table has no column"
ErrOnConflict == "OperationalError: ON CONFLICT clause does not match any PRIMARY KEY or UNIQUE constraint"
ErrDupColumn == "OperationalError: duplicate column name"
ErrMismatch == "IntegrityError: datatype mismatch"
ErrUnique == "IntegrityError: UNIQUE constraint failed"
ErrInterrupted == "KeyboardInterrupt"
Ok == "ok"

\* the call has not ended yet
Running == "running"

-----------------------------------------------------------------------------
(* The storage engine: one INSERT statement on one table *)

\* column affinity: what SQLite stores when value v goes into a column of
\* declared type ty.  A TEXT column turns an integer into its text, an
\* INTEGER column turns a text that is a numeral into the integer
Store(ty, v) ==
    CASE ty = "TEXT" /\ v = "1" -> "'1'"
      [] ty = "TEXT" /\ v = "2" -> "'2'"
      [] ty = "INTEGER" /\ v = "'1'" -> "1"
      [] ty = "INTEGER" /\ v = "'2'" -> "2"
      [] OTHER -> v

\* the value the statement stores in column c of t
Stored(t, cols, vals, c) == Store(t.types[ColIndex(t.cols, c)], vals[ColIndex(cols, c)])

\* an INSERT that ignores its column list and fills the columns of t in order
NewRow_positional(t, cols, vals) ==
    [i \in 1..Len(t.cols) |->
        IF i <= Len(vals) THEN Store(t.types[i], vals[i]) ELSE Null]

\* the row INSERT INTO t (cols) VALUES (vals) builds: NULL in the columns
\* the statement does not name
NewRow(t, cols, vals) ==
    [i \in 1..Len(t.cols) |->
        IF t.cols[i] \in Range(cols) THEN Stored(t, cols, vals, t.cols[i]) ELSE Null]

\* an insertion that puts the new row before the rows of the table
InsertRow_atFront(t, row) == [t EXCEPT !.rows = <<row>> \o t.rows]

\* SELECT * returns the rows of a rowid table in rowid order: insertion order,
\* and id order when id is the INTEGER PRIMARY KEY (the rowid itself)
InsertRow(t, row) ==
    IF t.pk
    THEN LET k == Cardinality({i \in 1..Len(t.rows) :
                     IntOf(Cell(t.cols, t.rows[i], "id")) < IntOf(Cell(t.cols, row, "id"))})
         IN [t EXCEPT !.rows = SubSeq(t.rows, 1, k) \o <<row>> \o SubSeq(t.rows, k + 1, Len(t.rows))]
    ELSE [t EXCEPT !.rows = Append(t.rows, row)]

\* a conflict resolved as INSERT OR REPLACE does: the old row is deleted and
\* the batch row inserted, NULL in the columns the batch does not have
UpdateRow_replace(t, cols, vals) ==
    LET idv == Stored(t, cols, vals, "id")
    IN [t EXCEPT !.rows =
          [i \in 1..Len(t.rows) |->
              IF Cell(t.cols, t.rows[i], "id") = idv THEN NewRow(t, cols, vals) ELSE t.rows[i]]]

\* a conflict resolved by deleting the old row only
UpdateRow_delete(t, cols, vals) ==
    LET idv == Stored(t, cols, vals, "id")
        keep == {i \in 1..Len(t.rows) : Cell(t.cols, t.rows[i], "id") # idv}
        nth(k) == CHOOSE i \in keep : Cardinality({j \in keep : j < i}) = k - 1
    IN [t EXCEPT !.rows = [k \in 1..Cardinality(keep) |-> t.rows[nth(k)]]]

\* ON CONFLICT(id) DO UPDATE SET c = excluded.c for every batch column c but id
UpdateRow(t, cols, vals) ==
    LET idv == Stored(t, cols, vals, "id")
    IN [t EXCEPT !.rows =
          [i \in 1..Len(t.rows) |->
              IF Cell(t.cols, t.rows[i], "id") = idv
              THEN [j \in 1..Len(t.cols) |->
                      IF t.cols[j] \in Range(cols) /\ t.cols[j] # "id"
                      THEN Stored(t, cols, vals, t.cols[j])
                      ELSE t.rows[i][j]]
              ELSE t.rows[i]]]

\* compiling the statement: unknown columns, then the conflict target
Prepare(kind, t, cols) ==
    IF ~(Range(cols) \subseteq Range(t.cols)) THEN ErrNoColumn
    ELSE IF kind = "update" /\ ~t.pk THEN ErrOnConflict
    ELSE Ok

\* an execution that never sees the conflict on id
ExecRow_noConflict(kind, t, cols, vals) ==
    LET idv == Stored(t, cols, vals, "id")
    IN IF t.pk /\ idv \notin IntVals
       THEN [tbl |-> t, err |-> ErrMismatch]
       ELSE [tbl |-> InsertRow(t, NewRow(t, cols, vals)), err |-> Ok]

\* an execution that keeps the row of the table on a conflict, whatever the
\* statement (ON CONFLICT(id) DO NOTHING)
ExecRow_conflictDoesNothing(kind, t, cols, vals) ==
    LET idv == Stored(t, cols, vals, "id")
    IN IF t.pk /\ idv \notin IntVals
       THEN [tbl |-> t, err |-> ErrMismatch]
       ELSE IF t.pk /\ idv \in IdsOf(t)
       THEN CASE kind = "plain" -> [tbl |-> t, err |-> ErrUnique]
              [] OTHER -> [tbl |-> t, err |-> Ok]
       ELSE [tbl |-> InsertRow(t, NewRow(t, cols, vals)), err |-> Ok]

\* one execution of the compiled statement; kind is "plain" (INSERT),
\* "ignore" (INSERT OR IGNORE) or "update" (ON CONFLICT(id) DO UPDATE)
ExecRow(kind, t, cols, vals) ==
    LET idv == Stored(t, cols, vals, "id")
    IN IF t.pk /\ idv \notin IntVals
       THEN [tbl |-> t, err |-> ErrMismatch]
       ELSE IF t.pk /\ idv \in IdsOf(t)
       THEN CASE kind = "ignore" -> [tbl |-> t, err |-> Ok]
              [] kind = "update" -> [tbl |-> UpdateRow(t, cols, vals), err |-> Ok]
              [] OTHER -> [tbl |-> t, err |-> ErrUnique]
       ELSE [tbl |-> InsertRow(t, NewRow(t, cols, vals)), err |-> Ok]

\* cursor.executemany: the statement once per row, in batch order, stopping at
\* the first row the engine rejects; the rows before it stay applied in the
\* open transaction
RECURSIVE ExecFrom(_, _, _, _, _)
ExecFrom(kind, t, cols, rows, i) ==
    IF i > Len(rows) THEN [tbl |-> t, err |-> Ok]
    ELSE LET r == ExecRow(kind, t, cols, rows[i])
         IN IF r.err # Ok THEN r ELSE ExecFrom(kind, r.tbl, cols, rows, i + 1)

ExecuteMany(kind, t, cols, rows) ==
    LET p == Prepare(kind, t, cols)
    IN IF p # Ok THEN [tbl |-> t, err |-> p] ELSE ExecFrom(kind, t, cols, rows, 1)

-----------------------------------------------------------------------------
(* DataFrames *)

\* a DataFrame: its column labels and its rows, every row one value per column
Frame(cols, rows) == [cols |-> cols, rows |-> rows]

\* the SQL type pandas declares for column i of D: INTEGER for an int64
\* column, TEXT for an object column (an empty DataFrame has object columns)
SqlType(D, i) ==
    IF Len(D.rows) > 0 /\ \A r \in 1..Len(D.rows) : D.rows[r][i] \in IntVals
    THEN "INTEGER" ELSE "TEXT"

\* a CREATE TABLE that declares every column TEXT
CreatedTable_allText(D) ==
    [exists |-> TRUE, cols |-> D.cols,
     types |-> [i \in 1..Len(D.cols) |-> "TEXT"],
     pk |-> FALSE, rows |-> <<>>]

\* CREATE TABLE as DataFrame.to_sql issues it: D's columns, no key
CreatedTable(D) ==
    [exists |-> TRUE, cols |-> D.cols,
     types |-> [i \in 1..Len(D.cols) |-> SqlType(D, i)],
     pk |-> FALSE, rows |-> <<>>]

-----------------------------------------------------------------------------
(* The methods of SqliteInterface, as functions of the connection's view c  *)
(* and the committed database d.  Each returns the two databases after the  *)
(* call, the error raised (Ok when the call returns) and what it returns.   *)

Result(c, d, err) ==
    [conn |-> c, disk |-> d, err |-> err, out |-> Frame(<<>>, <<>>), flags |-> <<>>, issued |-> <<>>]

\* a catalog query that forgets the name filter
_check_table_exists_anyTable(c, T) == \E U \in TableNames : c[U].exists

_check_table_exists(c, T) == c[T].exists

\* if_exists = 'fail' handled as 'append'
write_table_failAppends(c, d, T, D, if_exists) ==
    IF _check_table_exists(c, T) /\ if_exists \in {"append", "fail"}
    THEN LET r == ExecuteMany("plain", c[T], D.cols, D.rows)
         IN IF r.err = Ok
            THEN LET c2 == [c EXCEPT ![T] = r.tbl] IN Result(c2, c2, Ok)
            ELSE Result(d, d, r.err)
    ELSE LET r == ExecuteMany("plain", CreatedTable(D), D.cols, D.rows)
             c2 == [c EXCEPT ![T] = r.tbl]
         IN Result(c2, c2, Ok)

\* if_exists = 'replace' handled as 'append'
write_table_replaceAppends(c, d, T, D, if_exists) ==
    IF _check_table_exists(c, T) /\ if_exists = "fail"
    THEN Result(c, d, ErrExists)
    ELSE IF _check_table_exists(c, T)
    THEN LET r == ExecuteMany("plain", c[T], D.cols, D.rows)
         IN IF r.err = Ok
            THEN LET c2 == [c EXCEPT ![T] = r.tbl] IN Result(c2, c2, Ok)
            ELSE Result(d, d, r.err)
    ELSE LET r == ExecuteMany("plain", CreatedTable(D), D.cols, D.rows)
             c2 == [c EXCEPT ![T] = r.tbl]
         IN Result(c2, c2, Ok)

\* if_exists = 'append' handled as 'replace'
write_table_appendReplaces(c, d, T, D, if_exists) ==
    IF _check_table_exists(c, T) /\ if_exists = "fail"
    THEN Result(c, d, ErrExists)
    ELSE LET r == ExecuteMany("plain", CreatedTable(D), D.cols, D.rows)
             c2 == [c EXCEPT ![T] = r.tbl]
         IN Result(c2, c2, Ok)

write_table(c, d, T, D, if_exists) ==
    IF _check_table_exists(c, T) /\ if_exists = "fail"
    THEN Result(c, d, ErrExists)
    ELSE IF _check_table_exists(c, T) /\ if_exists = "append"
    THEN LET r == ExecuteMany("plain", c[T], D.cols, D.rows)
         IN IF r.err = Ok
            THEN LET c2 == [c EXCEPT ![T] = r.tbl] IN Result(c2, c2, Ok)
            ELSE Result(d, d, r.err)
    ELSE LET r == ExecuteMany("plain", CreatedTable(D), D.cols, D.rows)
             c2 == [c EXCEPT ![T] = r.tbl]
         IN Result(c2, c2, Ok)

read_table(c, d, T) ==
    IF ~_check_table_exists(c, T)
    THEN Result(c, d, ErrNotFound)
    ELSE [Result(c, d, Ok) EXCEPT !.out = Frame(c[T].cols, c[T].rows)]

\* the value an SQL literal of the INSERT text denotes
SqlEval(lit) ==
    CASE lit = "'rec'" -> "rec"
      [] lit = "'A'" -> "A"
      [] lit = "'B'" -> "B"
      [] OTHER -> lit

add_row(c, d, T, data) ==
    IF ~_check_table_exists(c, T)
    THEN Result(c, d, ErrNotFound)
    ELSE LET vals == [i \in 1..Len(data.vals) |-> SqlEval(data.vals[i])]
             r == ExecuteMany("plain", c[T], data.cols, <<vals>>)
         IN IF r.err # Ok
            THEN Result(c, d, r.err)
            ELSE LET c2 == [c EXCEPT ![T] = r.tbl] IN Result(c2, c2, Ok)

\* a schema change that rebuilds the table and loses the stored values
AlterAddColumn_losesValues(t, column_name, column_type) ==
    [t EXCEPT !.cols = Append(@, column_name),
              !.types = Append(@, column_type),
              !.rows = [i \in 1..Len(t.rows) |-> [j \in 1..(Len(t.cols) + 1) |-> Null]]]

\* a schema change that recreates the table with the new column and no rows
AlterAddColumn_dropsRows(t, column_name, column_type) ==
    [t EXCEPT !.cols = Append(@, column_name),
              !.types = Append(@, column_type),
              !.rows = <<>>]

\* ALTER TABLE t ADD COLUMN: the column at the end, NULL in every row
AlterAddColumn(t, column_name, column_type) ==
    [t EXCEPT !.cols = Append(@, column_name),
              !.types = Append(@, column_type),
              !.rows = [i \in 1..Len(t.rows) |-> Append(t.rows[i], Null)]]

\* SQLite compares column names without regard to case: Name is name
Fold(column_name) == IF column_name = "Name" THEN "name" ELSE column_name

add_column(c, d, T, column_name, column_type) ==
    IF ~_check_table_exists(c, T)
    THEN Result(c, d, ErrNotFound)
    ELSE IF Fold(column_name) \in {Fold(x) : x \in Range(c[T].cols)}
    THEN Result(c, d, ErrDupColumn)
    ELSE LET c2 == [c EXCEPT ![T] = AlterAddColumn(c[T], column_name, column_type)]
         IN [Result(c2, c2, Ok) EXCEPT !.issued = <<column_name>>]

\* a presence check that reports every wanted column as missing
_check_columns_allMissing(c, d, T, columns) ==
    IF ~_check_table_exists(c, T)
    THEN Result(c, d, ErrNotFound)
    ELSE [Result(c, d, Ok) EXCEPT !.flags = [i \in 1..Len(columns) |-> FALSE]]

\* a presence check that answers, at every position, whether all the wanted
\* columns exist
_check_columns_allOrNone(c, d, T, columns) ==
    IF ~_check_table_exists(c, T)
    THEN Result(c, d, ErrNotFound)
    ELSE [Result(c, d, Ok) EXCEPT
            !.flags = [i \in 1..Len(columns) |-> Range(columns) \subseteq Range(c[T].cols)]]

_check_columns(c, d, T, columns) ==
    IF ~_check_table_exists(c, T)
    THEN Result(c, d, ErrNotFound)
    ELSE [Result(c, d, Ok) EXCEPT
            !.flags = [i \in 1..Len(columns) |-> columns[i] \in Range(c[T].cols)]]

Min(a, b) == IF a < b THEN a ELSE b

\* the loop over zip(columns, column_types, existing_columns), from pair i
RECURSIVE AddMissingFrom(_, _, _, _, _, _, _, _)
AddMissingFrom(c, d, T, columns, column_types, existing, i, issued) ==
    IF i > Min(Len(columns), Min(Len(column_types), Len(existing)))
    THEN [Result(c, d, Ok) EXCEPT !.issued = issued]
    ELSE IF existing[i]
    THEN AddMissingFrom(c, d, T, columns, column_types, existing, i + 1, issued)
    ELSE LET r == add_column(c, d, T, columns[i], column_types[i])
         IN IF r.err # Ok
            THEN [r EXCEPT !.issued = Append(issued, columns[i])]
            ELSE AddMissingFrom(r.conn, r.disk, T, columns, column_types, existing,
                                i + 1, Append(issued, columns[i]))

check_and_add_columns(c, d, T, columns, column_types) ==
    IF ~_check_table_exists(c, T)
    THEN Result(c, d, ErrNotFound)
    ELSE AddMissingFrom(c, d, T, columns, column_types,
                        _check_columns(c, d, T, columns).flags, 1, <<>>)

\* an upsert that issues a plain INSERT for a batch whose only column is id
upsert_batch_plainInsert(c, d, T, D) ==
    IF ~_check_table_exists(c, T)
    THEN Result(c, d, ErrNotFound)
    ELSE LET update_columns == {col \in Range(D.cols) : col # "id"}
             kind == IF update_columns = {} THEN "plain" ELSE "update"
             r == ExecuteMany(kind, c[T], D.cols, D.rows)
             c2 == [c EXCEPT ![T] = r.tbl]
         IN IF r.err = Ok THEN Result(c2, c2, Ok) ELSE Result(c2, d, r.err)

upsert_batch(c, d, T, D) ==
    IF ~_check_table_exists(c, T)
    THEN Result(c, d, ErrNotFound)
    ELSE LET update_columns == {col \in Range(D.cols) : col # "id"}
             kind == IF update_columns = {} THEN "ignore" ELSE "update"
             r == ExecuteMany(kind, c[T], D.cols, D.rows)
             c2 == [c EXCEPT ![T] = r.tbl]
         IN IF r.err = Ok THEN Result(c2, c2, Ok) ELSE Result(c2, d, r.err)

-----------------------------------------------------------------------------
(* Inputs of the calls *)

Ids == IntVals \cup TextIds

Policies == {"fail", "replace", "append"}

\* column labels of the DataFrames written and upserted
FrameCols == {<<"id">>, <<"id", "name">>}

RowsOver(cols) ==
    {r \in [1..Len(cols) -> Ids \cup DataVals] :
        \A i \in 1..Len(cols) : r[i] \in (IF cols[i] = "id" THEN Ids ELSE DataVals)}

Frames ==
    UNION {{Frame(cols, rows) : rows \in SeqsUpTo(RowsOver(cols), MaxBatch)} : cols \in FrameCols}

\* the dicts given to add_row: column name -> SQL literal
Literal(v) == IF v \in IntVals THEN v ELSE IF v = "rec" THEN "'rec'" ELSE IF v = "A" THEN "'A'" ELSE "'B'"

RowDictCols == {<<"id">>, <<"id", "name">>, <<"id", "email">>}

RowDicts ==
    UNION {{[cols |-> cols, vals |-> [i \in 1..Len(cols) |-> Literal(r[i])]] : r \in RowsOver(cols)}
           : cols \in RowDictCols}

\* the column lists given to _check_columns and check_and_add_columns
WantedCols == {"name", "email"}

Wanted == SeqsUpTo(WantedCols, MaxWanted)

TypesFor(columns) == [1..Len(columns) -> ColTypes]

\* the column lists of the calls followed step by step: a name may differ
\* from a column of the table by case only
WantedAnyCase == SeqsUpTo(WantedCols \cup {"Name"}, MaxWanted)

-----------------------------------------------------------------------------
(* Construction: SqliteInterface.__init__ on a file system.  A file system  *)
(* says of every path whether nothing, a regular file or a directory is     *)
(* there; the working directory "." always exists.                          *)

Paths == {"db", "d", "d/db", "d/e", "d/e/db"}

\* the paths given as db_path
DbPaths == {"db", "d/db", "d/e/db"}

\* os.path.dirname
dirname(path) ==
    CASE path = "d/e/db" -> "d/e"
      [] path = "d/e" -> "d"
      [] path = "d/db" -> "d"
      [] OTHER -> ""

\* something exists below a path only when the path is a directory
FileSystems ==
    {f \in [Paths -> {"absent", "file", "dir"}] :
        \A path \in Paths : (dirname(path) # "" /\ f[path] # "absent") => f[dirname(path)] = "dir"}

ErrFileNotFound == "FileNotFoundError"
ErrFileExists == "FileExistsError"
ErrNotADirectory == "NotADirectoryError"
ErrIsADirectory == "IsADirectoryError"

isfile(f, path) == f[path] = "file"

\* os.mkdir, called for each missing directory in turn, parents never created
RECURSIVE makedirs_mkdir(_, _)
makedirs_mkdir(f, name) ==
    IF name = "." THEN [fs |-> f, err |-> Ok]
    ELSE IF f[name] # "absent"
    THEN [fs |-> f, err |-> IF f[name] = "dir" THEN Ok ELSE ErrFileExists]
    ELSE IF dirname(name) # "" /\ f[dirname(name)] = "absent"
    THEN [fs |-> f, err |-> ErrFileNotFound]
    ELSE IF dirname(name) # "" /\ f[dirname(name)] # "dir"
    THEN [fs |-> f, err |-> ErrNotADirectory]
    ELSE [fs |-> [f EXCEPT ![name] = "dir"], err |-> Ok]

\* os.makedirs(name, exist_ok=True): the missing parents first, then name
RECURSIVE makedirs(_, _)
makedirs(f, name) ==
    IF name = "." THEN [fs |-> f, err |-> Ok]
    ELSE LET head == dirname(name)
             up == IF head # "" /\ f[head] = "absent"
                   THEN makedirs(f, head)
                   ELSE [fs |-> f, err |-> Ok]
         IN IF up.err # Ok THEN up
            ELSE IF up.fs[name] # "absent"
            THEN [fs |-> up.fs, err |-> IF up.fs[name] = "dir" THEN Ok ELSE ErrFileExists]
            ELSE IF head # "" /\ up.fs[head] # "dir"
            THEN [fs |-> up.fs, err |-> ErrNotADirectory]
            ELSE [fs |-> [up.fs EXCEPT ![name] = "dir"], err |-> Ok]

\* open(path, 'w').close()
OpenForWriting(f, path) ==
    IF f[path] = "dir" THEN [fs |-> f, err |-> ErrIsADirectory]
    ELSE IF dirname(path) # "" /\ f[dirname(path)] # "dir" THEN [fs |-> f, err |-> ErrFileNotFound]
    ELSE [fs |-> [f EXCEPT ![path] = "file"], err |-> Ok]

\* the outcome of a construction: the file system after it, the error raised
\* and the connections the adapter holds
Constructed(f, err, connections) == [fs |-> f, err |-> err, connections |-> connections]

__init__(f, db_path, create_if_not_exists) ==
    IF ~isfile(f, db_path) /\ ~create_if_not_exists
    THEN Constructed(f, ErrFileNotFound, <<>>)
    ELSE IF ~isfile(f, db_path) /\ create_if_not_exists
    THEN LET dir_path == IF dirname(db_path) # "" THEN dirname(db_path) ELSE "."
             m == makedirs(f, dir_path)
             o == OpenForWriting(m.fs, db_path)
         IN IF m.err # Ok THEN Constructed(m.fs, m.err, <<>>)
            ELSE IF o.err # Ok THEN Constructed(o.fs, o.err, <<>>)
            ELSE Constructed(o.fs, Ok, <<db_path>>)
    ELSE Constructed(f, Ok, <<db_path>>)

NotBuilt ==
    [op |-> "none", db_path |-> "", create |-> FALSE, err |-> Ok, connections |-> <<>>,
     before |-> [path \in Paths |-> "absent"]]

\* the adapter of the other specifications: constructed on "db"
OnlyDb == [path \in Paths |-> IF path = "db" THEN "file" ELSE "absent"]

BuiltOnDb ==
    [op |-> "__init__", db_path |-> "db", create |-> TRUE, err |-> Ok,
     connections |-> __init__(OnlyDb, "db", TRUE).connections, before |-> OnlyDb]

-----------------------------------------------------------------------------
(* The source adapter: AirtableBaseInterface.read_table.  A record of the   *)
(* base is its record identifier and its fields, a dict in insertion order: *)
(* a sequence of <<key, value>> pairs with distinct keys.                   *)

\* records of one table
MaxRecords == 2

RemoteNames == {"people", "tasks"}
RecIds == {"recA", "recB", "recC"}
FieldPairs == {<<"name", "A">>, <<"name", "B">>, <<"id", "X">>}
NaN == "NaN"

Keys(fields) == {fields[i][1] : i \in 1..Len(fields)}

FieldDicts == {f \in SeqsUpTo(FieldPairs, 2) : Cardinality(Keys(f)) = Len(f)}

Records == [id : RecIds, fields : FieldDicts]

\* table.all(): the records of a table in source order, identifiers distinct
RecordLists ==
    {rs \in SeqsUpTo(Records, MaxRecords) : Cardinality({rs[i].id : i \in 1..Len(rs)}) = Len(rs)}

\* the bases: the table people is in the base, the table tasks is not
Bases == {[name \in {"people"} |-> rs] : rs \in RecordLists}

\* dict.setdefault: a key the dict has keeps its value
SetItem_keepsExisting(fields, key, value) ==
    IF key \in Keys(fields) THEN fields ELSE Append(fields, <<key, value>>)

\* fields[key] = value: a key the dict has keeps its position and takes the
\* value, a new key goes to the end
SetItem(fields, key, value) ==
    IF key \in Keys(fields)
    THEN [i \in 1..Len(fields) |-> IF fields[i][1] = key THEN <<key, value>> ELSE fields[i]]
    ELSE Append(fields, <<key, value>>)

\* dict.get(key, NaN)
GetItem(fields, key) ==
    IF key \in Keys(fields)
    THEN fields[CHOOSE i \in 1..Len(fields) : fields[i][1] = key][2]
    ELSE NaN

\* the column labels of pd.DataFrame(record_list): the keys of the dicts in
\* the order of their first appearance
RECURSIVE FirstSeen(_, _, _)
FirstSeen(record_list, i, seen) ==
    IF i > Len(record_list) THEN seen
    ELSE LET d == record_list[i]
             new == SelectSeq([k \in 1..Len(d) |-> d[k][1]], LAMBDA key : key \notin Range(seen))
         IN FirstSeen(record_list, i + 1, seen \o new)

\* pd.DataFrame(record_list): one row per dict, NaN where a dict lacks a key
DataFrame(record_list) ==
    LET labels == FirstSeen(record_list, 1, <<>>)
    IN Frame(labels,
             [i \in 1..Len(record_list) |->
                 [j \in 1..Len(labels) |-> GetItem(record_list[i], labels[j])]])

ErrNoSuchTable == "ValueError: table does not exist in the base"

airtable_read_table(b, name) ==
    IF name \notin DOMAIN b
    THEN [err |-> ErrNoSuchTable, out |-> Frame(<<>>, <<>>)]
    ELSE LET records == b[name]
             record_list == [i \in 1..Len(records) |-> SetItem(records[i].fields, "id", records[i].id)]
         IN [err |-> Ok, out |-> DataFrame(record_list)]

NotFetched == [op |-> "none", name |-> "", err |-> Ok, out |-> Frame(<<>>, <<>>)]

\* the base of the other specifications: no record
EmptyBase == [name \in {"people"} |-> <<>>]

-----------------------------------------------------------------------------
(* The database files an adapter is constructed on *)

InitTables ==
    {NoTable,
     RawTable(<<"id", "name">>, <<"INTEGER", "TEXT">>, <<>>),
     RawTable(<<"id", "name">>, <<"INTEGER", "TEXT">>, << <<"1", "A">> >>),
     RawTable(<<"id", "name">>, <<"INTEGER", "TEXT">>, << <<"1", "A">>, <<"2", "B">> >>),
     RawTable(<<"id", "name", "email">>, <<"INTEGER", "TEXT", "TEXT">>, << <<"1", "A", "B">> >>),
     [CreatedTable(Frame(<<"id", "name">>, << <<"1", "A">>, <<"2", "B">> >>))
        EXCEPT !.rows = << <<"1", "A">>, <<"2", "B">> >>],
     [CreatedTable(Frame(<<"id", "name">>, << <<"rec", "A">> >>))
        EXCEPT !.rows = << <<"rec", "A">> >>]}

NoCall ==
    [op |-> "none", tbl |-> "", pol |-> "", cols |-> <<>>, rows |-> <<>>, types |-> <<>>,
     err |-> Ok, out |-> Frame(<<>>, <<>>), flags |-> <<>>, issued |-> <<>>]

\* no check_and_add_columns call in progress
NoRun == [pc |-> "idle", existing |-> <<>>, i |-> 0, added |-> <<>>]

\* the adapters constructed on one database file
Adapters == {"a1", "a2"}

\* an adapter that has made no call
NotCalled ==
    [pc |-> "idle", tbl |-> "", cols |-> <<>>, types |-> <<>>, existing |-> <<>>, i |-> 0, err |-> Ok]

NoRuns == [a \in Adapters |-> NotCalled]

\* t1 is any of them; t2, the other table of the file, is absent or a table
\* that write_table created
OtherTables == {t \in InitTables : ~t.pk /\ Len(t.rows) < 2}

InitDatabases == {db \in [TableNames -> InitTables] : db["t2"] \in OtherTables}

Init ==
    /\ conn \in InitDatabases
    /\ disk = conn
    /\ prev = [conn |-> conn, disk |-> conn]
    /\ last = NoCall
    /\ nops = 0
    /\ run = NoRun
    /\ runs = NoRuns
    /\ fs = OnlyDb
    /\ built = BuiltOnDb
    /\ base = EmptyBase
    /\ fetched = NotFetched

-----------------------------------------------------------------------------
(* One action per method.  The adapter is synchronous: a call runs to its   *)
(* end before the caller issues the next one.  prev keeps the two databases *)
(* as they were when the call started, last the call, its arguments and its *)
(* outcome, until the caller has taken the outcome (Return).                *)

CanCall == last = NoCall /\ nops < MaxOps

Call(op, T, pol, cols, rows, types, r) ==
    /\ nops' = nops + 1
    /\ conn' = r.conn
    /\ disk' = r.disk
    /\ prev' = [conn |-> conn, disk |-> disk]
    /\ last' = [op |-> op, tbl |-> T, pol |-> pol, cols |-> cols, rows |-> rows,
                types |-> types, err |-> r.err, out |-> r.out, flags |-> r.flags,
                issued |-> r.issued]
    /\ UNCHANGED <<runVars, fsVars, srcVars>>

WriteTable ==
    CanCall /\ \E T \in TableNames, D \in Frames, pol \in Policies :
        Call("write_table", T, pol, D.cols, D.rows, <<>>, write_table(conn, disk, T, D, pol))

ReadTable ==
    CanCall /\ \E T \in TableNames :
        Call("read_table", T, "", <<>>, <<>>, <<>>, read_table(conn, disk, T))

AddRow ==
    CanCall /\ \E T \in TableNames, data \in RowDicts :
        Call("add_row", T, "", data.cols, <<data.vals>>, <<>>, add_row(conn, disk, T, data))

AddColumn ==
    CanCall /\ \E T \in TableNames, col \in ColNames, ty \in ColTypes :
        Call("add_column", T, "", <<col>>, <<>>, <<ty>>, add_column(conn, disk, T, col, ty))

CheckColumns ==
    CanCall /\ \E T \in TableNames, columns \in Wanted :
        Call("_check_columns", T, "", columns, <<>>, <<>>, _check_columns(conn, disk, T, columns))

CheckAndAddColumns ==
    CanCall /\ \E T \in TableNames, columns \in Wanted :
        \E types \in TypesFor(columns) :
            Call("check_and_add_columns", T, "", columns, <<>>, types,
                 check_and_add_columns(conn, disk, T, columns, types))

UpsertBatch ==
    CanCall /\ \E T \in TableNames, D \in Frames :
        Call("upsert_batch", T, "", D.cols, D.rows, <<>>, upsert_batch(conn, disk, T, D))

Return ==
    /\ last # NoCall
    /\ last' = NoCall
    /\ prev' = [conn |-> conn, disk |-> disk]
    /\ UNCHANGED <<conn, disk, nops>>
    /\ UNCHANGED <<runVars, fsVars, srcVars>>

Next ==
    \/ WriteTable
    \/ ReadTable
    \/ AddRow
    \/ AddColumn
    \/ CheckColumns
    \/ CheckAndAddColumns
    \/ UpsertBatch
    \/ Return

Spec == Init /\ [][Next]_vars

-----------------------------------------------------------------------------
(* check_and_add_columns step by step.  The call is a presence check made   *)
(* once, then one add_column per wanted column the check found missing;     *)
(* every add_column is an ALTER TABLE and a commit of its own.  The call    *)
(* can be interrupted (the process is stopped, or an exception arrives)     *)
(* between any two of its steps.  last is the call, its err is Running      *)
(* until the call has ended; run is its position.                           *)

StartOf(T, columns, types) ==
    [NoCall EXCEPT !.op = "check_and_add_columns", !.tbl = T, !.cols = columns,
                   !.types = types, !.err = Running]

\* number of iterations of the loop over zip(columns, column_types, existing_columns)
ZipLen == Min(Len(last.cols), Min(Len(last.types), Len(run.existing)))

BeginReconcile ==
    /\ run.pc = "idle"
    /\ nops < MaxOps
    /\ \E T \in TableNames, columns \in WantedAnyCase :
          \E types \in TypesFor(columns) :
             IF ~_check_table_exists(conn, T)
             THEN /\ last' = [StartOf(T, columns, types) EXCEPT !.err = ErrNotFound]
                  /\ run' = NoRun
             ELSE /\ last' = StartOf(T, columns, types)
                  /\ run' = [NoRun EXCEPT !.pc = "check"]
    /\ nops' = nops + 1
    /\ prev' = [conn |-> conn, disk |-> disk]
    /\ UNCHANGED <<conn, disk, runs, fsVars, srcVars>>

CheckPresence ==
    /\ run.pc = "check"
    /\ run' = [run EXCEPT !.pc = "loop", !.i = 1,
                          !.existing = _check_columns(conn, disk, last.tbl, last.cols).flags]
    /\ UNCHANGED <<dbVars, runs, fsVars, srcVars>>

SkipColumn ==
    /\ run.pc = "loop"
    /\ run.i <= ZipLen
    /\ run.existing[run.i]
    /\ run' = [run EXCEPT !.i = @ + 1]
    /\ UNCHANGED <<dbVars, runs, fsVars, srcVars>>

AddMissingColumn ==
    /\ run.pc = "loop"
    /\ run.i <= ZipLen
    /\ ~run.existing[run.i]
    /\ LET r == add_column(conn, disk, last.tbl, last.cols[run.i], last.types[run.i])
       IN /\ conn' = r.conn
          /\ disk' = r.disk
          /\ last' = [last EXCEPT !.issued = Append(@, last.cols[run.i]),
                                  !.err = IF r.err = Ok THEN @ ELSE r.err]
          /\ run' = IF r.err = Ok
                    THEN [run EXCEPT !.i = @ + 1, !.added = Append(@, last.cols[run.i])]
                    ELSE [run EXCEPT !.pc = "idle"]
    /\ UNCHANGED <<prev, nops, runs, fsVars, srcVars>>

FinishReconcile ==
    /\ run.pc = "loop"
    /\ run.i > ZipLen
    /\ last' = [last EXCEPT !.err = Ok]
    /\ run' = [run EXCEPT !.pc = "idle"]
    /\ UNCHANGED <<conn, disk, prev, nops, runs, fsVars, srcVars>>

Interrupt ==
    /\ run.pc \in {"check", "loop"}
    /\ last' = [last EXCEPT !.err = ErrInterrupted]
    /\ run' = [run EXCEPT !.pc = "idle"]
    /\ UNCHANGED <<conn, disk, prev, nops, runs, fsVars, srcVars>>

NextReconcile ==
    \/ BeginReconcile
    \/ CheckPresence
    \/ SkipColumn
    \/ AddMissingColumn
    \/ FinishReconcile
    \/ Interrupt

SpecReconcile == Init /\ [][NextReconcile]_vars

-----------------------------------------------------------------------------
(* Two adapters on one database file, each running check_and_add_columns.   *)
(* Neither has a transaction open: PRAGMA table_info reads the committed    *)
(* schema and every ALTER TABLE is committed as it is executed, so each     *)
(* connection sees the file (conn follows disk).  The steps of the two      *)
(* calls interleave in any order.                                           *)

ZipLenOf(r) == Min(Len(r.cols), Min(Len(r.types), Len(r.existing)))

BeginOn(a) ==
    /\ runs[a].pc \in {"idle", "done"}
    /\ nops < MaxOps
    /\ \E T \in TableNames, columns \in Wanted :
          \E types \in TypesFor(columns) :
             LET r == [NotCalled EXCEPT !.tbl = T, !.cols = columns, !.types = types]
             IN IF ~_check_table_exists(disk, T)
                THEN runs' = [runs EXCEPT ![a] = [r EXCEPT !.pc = "done", !.err = ErrNotFound]]
                ELSE runs' = [runs EXCEPT ![a] = [r EXCEPT !.pc = "check", !.err = Running]]
    /\ nops' = nops + 1
    /\ UNCHANGED <<conn, disk, prev, last, run, fsVars, srcVars>>

CheckOn(a) ==
    /\ runs[a].pc = "check"
    /\ runs' = [runs EXCEPT ![a].pc = "loop", ![a].i = 1,
                            ![a].existing = _check_columns(disk, disk, runs[a].tbl, runs[a].cols).flags]
    /\ UNCHANGED <<dbVars, run, fsVars, srcVars>>

SkipOn(a) ==
    /\ runs[a].pc = "loop"
    /\ runs[a].i <= ZipLenOf(runs[a])
    /\ runs[a].existing[runs[a].i]
    /\ runs' = [runs EXCEPT ![a].i = @ + 1]
    /\ UNCHANGED <<dbVars, run, fsVars, srcVars>>

AddOn(a) ==
    /\ runs[a].pc = "loop"
    /\ runs[a].i <= ZipLenOf(runs[a])
    /\ ~runs[a].existing[runs[a].i]
    /\ LET r == add_column(disk, disk, runs[a].tbl, runs[a].cols[runs[a].i], runs[a].types[runs[a].i])
       IN /\ disk' = r.disk
          /\ conn' = r.disk
          /\ runs' = IF r.err = Ok
                     THEN [runs EXCEPT ![a].i = @ + 1]
                     ELSE [runs EXCEPT ![a].pc = "done", ![a].err = r.err]
    /\ UNCHANGED <<prev, last, nops, run, fsVars, srcVars>>

FinishOn(a) ==
    /\ runs[a].pc = "loop"
    /\ runs[a].i > ZipLenOf(runs[a])
    /\ runs' = [runs EXCEPT ![a].pc = "done", ![a].err = Ok]
    /\ UNCHANGED <<dbVars, run, fsVars, srcVars>>

NextConcurrent ==
    \/ \E a \in Adapters : BeginOn(a)
    \/ \E a \in Adapters : CheckOn(a)
    \/ \E a \in Adapters : SkipOn(a)
    \/ \E a \in Adapters : AddOn(a)
    \/ \E a \in Adapters : FinishOn(a)

SpecConcurrent == Init /\ [][NextConcurrent]_vars

-----------------------------------------------------------------------------
(* Constructions of adapters, one after the other, on any file system *)

InitConstruct ==
    /\ fs \in FileSystems
    /\ built = NotBuilt
    /\ conn = [T \in TableNames |-> NoTable]
    /\ disk = conn
    /\ prev = [conn |-> conn, disk |-> conn]
    /\ last = NoCall
    /\ nops = 0
    /\ run = NoRun
    /\ runs = NoRuns
    /\ base = EmptyBase
    /\ fetched = NotFetched

Construct ==
    /\ nops < MaxOps
    /\ \E db_path \in DbPaths, create_if_not_exists \in BOOLEAN :
          LET r == __init__(fs, db_path, create_if_not_exists)
          IN /\ fs' = r.fs
             /\ built' = [op |-> "__init__", db_path |-> db_path, create |-> create_if_not_exists,
                          err |-> r.err, connections |-> r.connections, before |-> fs]
    /\ nops' = nops + 1
    /\ UNCHANGED <<conn, disk, prev, last, runVars, srcVars>>

NextConstruct == Construct

SpecConstruct == InitConstruct /\ [][NextConstruct]_vars

-----------------------------------------------------------------------------
(* Reads of the source adapter, on any base *)

InitSource ==
    /\ base \in Bases
    /\ fetched = NotFetched
    /\ conn = [T \in TableNames |-> NoTable]
    /\ disk = conn
    /\ prev = [conn |-> conn, disk |-> conn]
    /\ last = NoCall
    /\ nops = 0
    /\ run = NoRun
    /\ runs = NoRuns
    /\ fs = OnlyDb
    /\ built = BuiltOnDb

ReadSource ==
    /\ nops < MaxOps
    /\ \E name \in RemoteNames :
          LET r == airtable_read_table(base, name)
          IN fetched' = [op |-> "read_table", name |-> name, err |-> r.err, out |-> r.out]
    /\ nops' = nops + 1
    /\ UNCHANGED <<base, conn, disk, prev, last, runVars, fsVars>>

NextSource == ReadSource

SpecSource == InitSource /\ [][NextSource]_vars

-----------------------------------------------------------------------------
(* Properties.  In a state reached by a call, last is the call, prev the    *)
(* databases before it, conn and disk the databases after it.               *)

LastFrame == Frame(last.cols, last.rows)

Before == prev.conn[last.tbl]

After == conn[last.tbl]

Untouched == conn = prev.conn /\ disk = prev.disk

NeedsTable ==
    {"read_table", "add_row", "add_column", "_check_columns",
     "check_and_add_columns", "upsert_batch"}

\* C1: every operation but write_table, called on a table name that is not
\* in the database, raises the not-found error and leaves the database (what
\* the connection sees and what is committed) as it was.
C1_AbsentTableIsNotFound ==
    (last.op \in NeedsTable /\ ~Before.exists)
        => (last.err = ErrNotFound /\ Untouched)

C1_Witness ==
    /\ last.op = "upsert_batch"
    /\ ~Before.exists
    /\ Len(last.rows) > 0
    /\ last.err = ErrNotFound
    /\ \E U \in TableNames : prev.conn[U].exists /\ Len(prev.conn[U].rows) > 0

\* C2: write_table(T, D2, fail) on an existing table T raises the
\* already-exists error and leaves the database as it was: T keeps its schema
\* and its rows, no row of D2 lands.
C2_FailOnExistingTable ==
    (last.op = "write_table" /\ last.pol = "fail" /\ Before.exists)
        => (last.err = ErrExists /\ Untouched)

C2_Witness ==
    /\ last.op = "write_table"
    /\ last.pol = "fail"
    /\ Before.exists
    /\ Len(Before.rows) > 0
    /\ Len(last.rows) > 0
    /\ last.err = ErrExists

\* every column of D holds integers only or no integer at all
OneTypePerColumn(D) ==
    \A i \in 1..Len(D.cols) :
        \/ \A r \in 1..Len(D.rows) : D.rows[r][i] \in IntVals
        \/ \A r \in 1..Len(D.rows) : D.rows[r][i] \notin IntVals

WriteThenReadReturns(D) ==
    /\ last.err = Ok
    /\ After.exists
    /\ read_table(conn, disk, last.tbl).err = Ok
    /\ read_table(conn, disk, last.tbl).out = D

\* C3 as stated: write_table(T, D, policy) on an absent table T succeeds
\* under each policy and a read_table(T) that follows returns exactly the
\* columns and the rows of D.
C3_Original ==
    (last.op = "write_table" /\ ~Before.exists) => WriteThenReadReturns(LastFrame)

\* C3 amended: the same, for every D whose columns each hold values of one
\* type (integers only, or no integer).
C3_WriteThenRead ==
    (last.op = "write_table" /\ ~Before.exists /\ OneTypePerColumn(LastFrame))
        => WriteThenReadReturns(LastFrame)

C3_Witness ==
    /\ last.op = "write_table"
    /\ last.pol = "append"
    /\ ~Before.exists
    /\ Len(last.cols) = 2
    /\ Len(last.rows) = 2
    /\ last.rows[1][1] \in IntVals
    /\ OneTypePerColumn(LastFrame)
    /\ read_table(conn, disk, last.tbl).out = LastFrame

-----------------------------------------------------------------------------
(* Upsert *)

IsUpsert == last.op = "upsert_batch" /\ Before.exists

\* the ids of the batch, and the batch row that has id v
BatchIds(D) == {D.rows[i][ColIndex(D.cols, "id")] : i \in 1..Len(D.rows)}

DistinctIds(D) == Cardinality(BatchIds(D)) = Len(D.rows)

BatchRow(D, v) == D.rows[CHOOSE i \in 1..Len(D.rows) : D.rows[i][ColIndex(D.cols, "id")] = v]

RowsWithId(t, v) == {i \in 1..Len(t.rows) : Cell(t.cols, t.rows[i], "id") = v}

\* the reference merge of batch D into table tb, as a relation between tb and
\* the table ta after it
IsMerge(tb, D, ta) ==
    /\ ta.cols = tb.cols /\ ta.types = tb.types /\ ta.pk = tb.pk
    /\ IdsOf(ta) = IdsOf(tb) \cup BatchIds(D)
    /\ \A v \in IdsOf(ta) : Cardinality(RowsWithId(ta, v)) = 1
    /\ \A i \in 1..Len(tb.rows) :
          LET v == Cell(tb.cols, tb.rows[i], "id")
              new == ta.rows[CHOOSE k \in RowsWithId(ta, v) : TRUE]
          IN IF v \notin BatchIds(D)
             THEN new = tb.rows[i]
             ELSE \A c \in Range(tb.cols) :
                     Cell(ta.cols, new, c) =
                        IF c \in Range(D.cols)
                        THEN BatchRow(D, v)[ColIndex(D.cols, c)]
                        ELSE Cell(tb.cols, tb.rows[i], c)
    /\ \A v \in BatchIds(D) \ IdsOf(tb) :
          LET new == ta.rows[CHOOSE k \in RowsWithId(ta, v) : TRUE]
          IN \A c \in Range(tb.cols) :
                Cell(ta.cols, new, c) =
                    IF c \in Range(D.cols) THEN BatchRow(D, v)[ColIndex(D.cols, c)] ELSE Null

C5_NoConstraintIsRejected ==
    (IsUpsert /\ ~Before.pk /\ Range(last.cols) \subseteq Range(Before.cols) /\ Len(last.rows) > 0)
        => (last.err = ErrOnConflict /\ After.rows = Before.rows)

\* C6 as stated: upsert(T, B) is atomic over B. When it fails, no row of B
\* is in T, neither as the adapter reads T afterwards nor in the committed
\* database; when it returns, all of B is merged and committed.
C6_UpsertIsAtomic ==
    IsUpsert =>
        IF last.err = Ok
        THEN disk = conn
        ELSE /\ read_table(conn, disk, last.tbl).out = read_table(prev.conn, prev.disk, last.tbl).out
             /\ disk = prev.disk

\* C7: upsert(T, B) on a table T whose id is uniquely constrained, done a
\* second time, leaves T as the first upsert left it.
C7_UpsertIdempotent ==
    (IsUpsert /\ Before.pk)
        => LET again == upsert_batch(conn, disk, last.tbl, LastFrame)
           IN /\ again.err = last.err
              /\ again.conn[last.tbl] = After

C7_Witness ==
    /\ IsUpsert /\ Before.pk /\ last.err = Ok
    /\ Len(last.rows) = 2
    /\ Len(last.cols) = 2
    /\ Len(After.rows) > Len(Before.rows)
    /\ Len(Before.rows) > 0
    /\ After.rows[1] # Before.rows[1]

\* C8: an upsert, whether it returns or fails, deletes no row: every id of
\* T is still in T and T has at least as many rows, in what the adapter sees
\* and in what is committed.
C8_UpsertDeletesNothing ==
    IsUpsert =>
        /\ IdsOf(Before) \subseteq IdsOf(After)
        /\ Len(After.rows) >= Len(Before.rows)
        /\ IdsOf(prev.disk[last.tbl]) \subseteq IdsOf(disk[last.tbl])
        /\ Len(disk[last.tbl].rows) >= Len(prev.disk[last.tbl].rows)

C8_Witness ==
    /\ IsUpsert /\ Before.pk
    /\ last.err = Ok
    /\ Len(Before.rows) = 2
    /\ Len(last.rows) = 2
    /\ After.rows[1] # Before.rows[1]
    /\ After.rows[2] # Before.rows[2]
    /\ prev.conn # prev.disk

-----------------------------------------------------------------------------
(* Schema reconciliation *)

IsReconcile == last.op = "check_and_add_columns" /\ Before.exists

\* s is a prefix of t
IsPrefix(s, t) == Len(s) <= Len(t) /\ SubSeq(t, 1, Len(s)) = s

\* C9: after check_and_add_columns(T, cols, types) has returned, the same
\* call again returns, issues no add_column, and leaves the schema of T (and
\* the database) as the first call left it.
C9_ReconcileIdempotent ==
    (IsReconcile /\ last.err = Ok)
        => LET again == check_and_add_columns(conn, disk, last.tbl, last.cols, last.types)
           IN /\ again.err = Ok
              /\ again.issued = <<>>
              /\ again.conn[last.tbl].cols = After.cols
              /\ again.conn[last.tbl].types = After.types
              /\ again.conn = conn /\ again.disk = disk

C9_Witness ==
    /\ IsReconcile /\ last.err = Ok
    /\ Len(last.cols) = 2
    /\ Len(last.issued) = 2
    /\ Len(After.cols) = Len(Before.cols) + 2

C12_NoDuplicateColumnError ==
    IsReconcile
        => /\ last.err # ErrDupColumn
           /\ \A k \in 1..Len(last.issued) :
                 last.issued[k] \notin Range(Before.cols) \cup {last.issued[j] : j \in 1..(k - 1)}

-----------------------------------------------------------------------------
(* write_table on an existing table *)

IsWrite(pol) == last.op = "write_table" /\ last.pol = pol /\ Before.exists

ReplacedBy(D) ==
    /\ last.err = Ok
    /\ After.exists
    /\ After.cols = D.cols
    /\ After.rows = D.rows
    /\ read_table(conn, disk, last.tbl).out = D

\* C13 as stated: after write_table(T, D, replace) on an existing table T,
\* the columns of T are exactly the columns of D and the rows of T are
\* exactly the rows of D.
C13_Original ==
    IsWrite("replace") => ReplacedBy(LastFrame)

\* C13 amended: the same, for every D whose columns each hold values of one
\* type (integers only, or no integer).
C13_ReplaceIsExact ==
    (IsWrite("replace") /\ OneTypePerColumn(LastFrame)) => ReplacedBy(LastFrame)

C13_Witness ==
    /\ IsWrite("replace")
    /\ OneTypePerColumn(LastFrame)
    /\ Before.cols = <<"id", "name", "email">>
    /\ Len(Before.rows) > 0
    /\ last.cols = <<"id">>
    /\ Len(last.rows) = 2
    /\ After.cols = <<"id">>
    /\ After.rows = last.rows

\* the rows of D with their values in the column order of table t
InTableOrder(t, D) ==
    [i \in 1..Len(D.rows) |-> [j \in 1..Len(t.cols) |-> D.rows[i][ColIndex(D.cols, t.cols[j])]]]

SameColumnSet(t, D) == Range(D.cols) = Range(t.cols)

\* every value of D is stored as it is in its column of t: no integer goes
\* into a TEXT column, no numeral text into an INTEGER column
StoredAsIs(t, D) ==
    \A i \in 1..Len(D.rows) : \A col \in Range(D.cols) :
        Stored(t, D.cols, D.rows[i], col) = D.rows[i][ColIndex(D.cols, col)]

AppendedAfter(D) ==
    /\ last.err = Ok
    /\ After.cols = Before.cols /\ After.types = Before.types /\ After.pk = Before.pk
    /\ After.rows = Before.rows \o InTableOrder(Before, D)

\* C14 as stated: after write_table(T, D, append) on an existing table T
\* with the column set of D, T holds its prior rows, unchanged and in their
\* order, followed by the rows of D in batch order, and its schema is
\* unchanged.
C14_Original ==
    (IsWrite("append") /\ SameColumnSet(Before, LastFrame)) => AppendedAfter(LastFrame)

\* C14 amended: the same, for a table T without a key on id and a batch D
\* whose values are stored as they are in the columns of T.
C14_AppendAddsAfter ==
    (IsWrite("append") /\ SameColumnSet(Before, LastFrame) /\ ~Before.pk
        /\ StoredAsIs(Before, LastFrame))
        => AppendedAfter(LastFrame)

C14_Witness ==
    /\ IsWrite("append") /\ SameColumnSet(Before, LastFrame) /\ ~Before.pk
    /\ StoredAsIs(Before, LastFrame)
    /\ Len(Before.rows) = 2
    /\ Len(last.rows) = 2
    /\ last.rows[1] = Before.rows[2]
    /\ Len(After.rows) = 4
    /\ After.rows[3] = last.rows[1]

-----------------------------------------------------------------------------
(* Schema inspection and the single-row, single-column operations *)

\* C15: _check_columns(T, wanted) on an existing table returns one boolean
\* per wanted name, in the order of wanted, the i-th true exactly when
\* wanted[i] is the name of a column of T, and leaves the database as it was.
C15_CheckColumnsIsPositional ==
    (last.op = "_check_columns" /\ Before.exists)
        => /\ last.err = Ok
           /\ Len(last.flags) = Len(last.cols)
           /\ \A i \in 1..Len(last.cols) :
                 last.flags[i] <=> (\E j \in 1..Len(Before.cols) : Before.cols[j] = last.cols[i])
           /\ Untouched

C15_Witness ==
    /\ last.op = "_check_columns"
    /\ Before.cols = <<"id", "name">>
    /\ last.cols = <<"email", "name">>
    /\ last.flags = <<FALSE, TRUE>>
    /\ prev.conn # prev.disk

\* every column of table s is a column of table t, with the same declared type
SchemaKept(s, t) ==
    \A i \in 1..Len(s.cols) :
        \E j \in 1..Len(t.cols) : t.cols[j] = s.cols[i] /\ t.types[j] = s.types[i]

\* no table has lost or retyped a column in the last call
SchemasGrew ==
    \A U \in TableNames :
        /\ SchemaKept(prev.conn[U], conn[U])
        /\ SchemaKept(prev.disk[U], disk[U])

\* C16 as stated: no operation (write_table under any policy, add_row,
\* add_column, check_and_add_columns, upsert_batch) removes or retypes a
\* column: what is in a schema before a call is in it, with the same type,
\* after the call, hence at every later point.
C16_Original == SchemasGrew

\* C16 amended: the same for every operation but write_table under replace.
C16_SchemasOnlyGrow ==
    ~(last.op = "write_table" /\ last.pol = "replace") => SchemasGrew

C16_Witness ==
    /\ nops = 2
    /\ last.op = "write_table" /\ last.pol = "append" /\ last.err = Ok
    /\ Before.cols = <<"id", "name", "email">>
    /\ Before.types = <<"TEXT", "TEXT", "INTEGER">>
    /\ last.cols = <<"id">>
    /\ Len(last.rows) > 0
    /\ After.cols = Before.cols /\ After.types = Before.types

\* sequence s without its k-th element
Without(s, k) == SubSeq(s, 1, k - 1) \o SubSeq(s, k + 1, Len(s))

\* no table but the one the call names has changed, as the adapter reads them
OthersUnchanged == \A U \in TableNames \ {last.tbl} : conn[U] = prev.conn[U]

IsAddRow == last.op = "add_row" /\ Before.exists /\ last.err = Ok

\* the row given to add_row: its keys, and the values its SQL literals denote
RowGiven == Frame(last.cols, << [i \in 1..Len(last.cols) |-> SqlEval(last.rows[1][i])] >>)

AddedOneRow ==
    /\ After.cols = Before.cols /\ After.types = Before.types /\ After.pk = Before.pk
    /\ Len(After.rows) = Len(Before.rows) + 1
    /\ \E k \in 1..Len(After.rows) :
          /\ Without(After.rows, k) = Before.rows
          /\ \A i \in 1..Len(last.cols) :
                Cell(After.cols, After.rows[k], last.cols[i]) = RowGiven.rows[1][i]
    /\ OthersUnchanged

IsAddColumn == last.op = "add_column" /\ Before.exists /\ last.err = Ok

\* C18: a successful add_column(T, c, type) on an existing table leaves T
\* with its prior schema plus c, declared as type; T has the same rows, each
\* with its prior values in the prior columns; no other table changes.
C18_AddColumnIsAdditive ==
    IsAddColumn
        => /\ After.cols = Append(Before.cols, last.cols[1])
           /\ After.types = Append(Before.types, last.types[1])
           /\ After.pk = Before.pk
           /\ Len(After.rows) = Len(Before.rows)
           /\ \A i \in 1..Len(Before.rows) : SubSeq(After.rows[i], 1, Len(Before.cols)) = Before.rows[i]
           /\ OthersUnchanged

C18_Witness ==
    /\ IsAddColumn
    /\ Len(Before.rows) = 2
    /\ Len(After.cols) = 3
    /\ After.rows[2] = Append(Before.rows[2], Null)
    /\ \E U \in TableNames \ {last.tbl} : Len(conn[U].rows) > 0

-----------------------------------------------------------------------------
(* Reconciliation step by step (SpecReconcile) *)

\* a call on an existing table that has ended
ReconcileEnded == last.op = "check_and_add_columns" /\ run.pc = "idle" /\ Before.exists

\* the wanted names that are not column names of t, in wanted order
MissingSeq(t, columns) == SelectSeq(columns, LAMBDA col : col \notin Range(t.cols))

\* a call that ran to its end, step by step, has done what
\* check_and_add_columns does as one function of the database
StepsAgree ==
    (ReconcileEnded /\ last.err # ErrInterrupted)
        => LET whole == check_and_add_columns(prev.conn, prev.disk, last.tbl, last.cols, last.types)
           IN /\ whole.err = last.err
              /\ whole.issued = last.issued
              /\ whole.conn = conn /\ whole.disk = disk

\* C11 as stated: when check_and_add_columns(T, cols, types) is interrupted
\* or fails after k >= 1 missing columns were added, the schema of T is the prior
\* schema followed by the first k missing columns and nothing else; the same
\* call made again returns without error, adds exactly the columns still
\* missing, and leaves the schema an uninterrupted call would have left.
C11_ReconcileResumes ==
    (ReconcileEnded /\ last.err # Ok /\ Len(run.added) > 0)
        => /\ After.cols = Before.cols \o run.added
           /\ IsPrefix(run.added, MissingSeq(Before, last.cols))
           /\ LET again == check_and_add_columns(conn, disk, last.tbl, last.cols, last.types)
                  whole == check_and_add_columns(prev.conn, prev.disk, last.tbl, last.cols, last.types)
              IN /\ again.err = Ok
                 /\ Range(again.issued) = Range(MissingSeq(After, last.cols))
                 /\ again.conn[last.tbl].cols = whole.conn[last.tbl].cols
                 /\ again.conn[last.tbl].types = whole.conn[last.tbl].types

-----------------------------------------------------------------------------
(* Construction (SpecConstruct) *)

IsConstruct == built.op = "__init__"

\* the directories above a path
Above(path) == {a \in Paths : a = dirname(path) \/ a = dirname(dirname(path))} \ {""}

\* nothing is at the path and nothing but directories above it
Creatable(f, path) ==
    f[path] = "absent" /\ \A a \in Above(path) : f[a] \in {"absent", "dir"}

Refused ==
    (~isfile(built.before, built.db_path) /\ ~built.create)
        => (built.err = ErrFileNotFound /\ built.connections = <<>> /\ fs = built.before)

Created ==
    /\ built.err = Ok
    /\ fs[built.db_path] = "file"
    /\ \A a \in Above(built.db_path) : fs[a] = "dir"
    /\ \A path \in Paths \ ({built.db_path} \cup Above(built.db_path)) : fs[path] = built.before[path]

Connected ==
    built.err = Ok => (fs[built.db_path] = "file" /\ built.connections = <<built.db_path>>)

\* C19 as stated: on a path where no file exists, construction with
\* create_if_not_exists false raises FileNotFoundError and creates nothing;
\* with create_if_not_exists true it creates the missing parent directories
\* and the file; whenever construction succeeds the file exists and the
\* adapter holds one connection, to that file.
C19_Original ==
    IsConstruct
        => /\ Refused
           /\ (~isfile(built.before, built.db_path) /\ built.create) => Created
           /\ Connected

\* C19 amended: the creation is claimed for a path where nothing exists and
\* whose parents, where they exist, are directories; on any other path
\* without a file the construction raises and creates nothing.
C19_Construction ==
    IsConstruct
        => /\ Refused
           /\ (Creatable(built.before, built.db_path) /\ built.create) => Created
           /\ (~isfile(built.before, built.db_path) /\ ~Creatable(built.before, built.db_path))
                 => (built.err # Ok /\ built.connections = <<>> /\ fs = built.before)
           /\ Connected

C19_Witness ==
    /\ IsConstruct
    /\ built.db_path = "d/e/db"
    /\ built.create
    /\ built.before["d"] = "absent"
    /\ built.before["db"] = "dir"
    /\ built.err = Ok
    /\ fs["d"] = "dir" /\ fs["d/e"] = "dir" /\ fs["d/e/db"] = "file"
    /\ built.connections = <<"d/e/db">>

-----------------------------------------------------------------------------
(* The source adapter (SpecSource) *)

\* C20: read_table(name) of the source adapter, for a table of the base,
\* returns one row per record of the table, in the order of the records, and
\* the id of every row is the record's own identifier, also when the
\* record's fields have a field named id.
C20_RowsCarryRecordIds ==
    (fetched.op = "read_table" /\ fetched.name \in DOMAIN base)
        => /\ fetched.err = Ok
           /\ Len(fetched.out.rows) = Len(base[fetched.name])
           /\ \A i \in 1..Len(base[fetched.name]) :
                 /\ "id" \in Range(fetched.out.cols)
                 /\ Cell(fetched.out.cols, fetched.out.rows[i], "id") = base[fetched.name][i].id

C20_Witness ==
    /\ fetched.op = "read_table"
    /\ fetched.err = Ok
    /\ Len(base[fetched.name]) = 2
    /\ "id" \in Keys(base[fetched.name][1].fields)
    /\ base[fetched.name][2].fields = << <<"name", "B">> >>
    /\ Cell(fetched.out.cols, fetched.out.rows[1], "id") = base[fetched.name][1].id
    /\ Cell(fetched.out.cols, fetched.out.rows[2], "name") = "B"

-----------------------------------------------------------------------------
(* Upsert of a batch whose only column is id *)

OnlyIdColumn == IsUpsert /\ Before.pk /\ last.cols = <<"id">>

\* the row INSERT OR IGNORE builds for id v: v in id, NULL elsewhere
IdOnlyRow(t, v) == [j \in 1..Len(t.cols) |-> IF t.cols[j] = "id" THEN v ELSE Null]

\* insert-or-ignore of the ids of D: the call returns, every row of tb is in
\* ta as it was, every id of D that tb lacks has one row in ta, and ta has
\* no other row
InsertedOrIgnored(tb, D, ta) ==
    /\ last.err = Ok
    /\ ta.cols = tb.cols /\ ta.types = tb.types /\ ta.pk = tb.pk
    /\ \A i \in 1..Len(tb.rows) :
          LET v == Cell(tb.cols, tb.rows[i], "id")
          IN /\ Cardinality(RowsWithId(ta, v)) = 1
             /\ \A k \in RowsWithId(ta, v) : ta.rows[k] = tb.rows[i]
    /\ \A v \in BatchIds(D) \ IdsOf(tb) :
          /\ Cardinality(RowsWithId(ta, v)) = 1
          /\ \A k \in RowsWithId(ta, v) : ta.rows[k] = IdOnlyRow(tb, v)
    /\ Len(ta.rows) = Len(tb.rows) + Cardinality(BatchIds(D) \ IdsOf(tb))

-----------------------------------------------------------------------------
(* Upsert of a batch that repeats an id *)

WithDataColumn == IsUpsert /\ Before.pk /\ Range(last.cols) # {"id"}

\* the ids that more than one row of D has
RepeatedIds(D) ==
    {v \in BatchIds(D) :
        Cardinality({i \in 1..Len(D.rows) : D.rows[i][ColIndex(D.cols, "id")] = v}) > 1}

\* the last row of D with id v
LastBatchRow(D, v) ==
    D.rows[CHOOSE i \in 1..Len(D.rows) :
              /\ D.rows[i][ColIndex(D.cols, "id")] = v
              /\ \A j \in (i + 1)..Len(D.rows) : D.rows[j][ColIndex(D.cols, "id")] # v]

\* every repeated id of D has one row in ta, with the values of the last row
\* of D for it in the columns of D other than id
LastWins(D, ta) ==
    \A v \in RepeatedIds(D) :
        /\ Cardinality(RowsWithId(ta, v)) = 1
        /\ \A k \in RowsWithId(ta, v) :
              \A c \in Range(D.cols) \ {"id"} :
                 Cell(ta.cols, ta.rows[k], c) = LastBatchRow(D, v)[ColIndex(D.cols, c)]

-----------------------------------------------------------------------------
(* Two adapters reconciling one table (SpecConcurrent) *)

NoRepeat(columns) == Cardinality(Range(columns)) = Len(columns)

Occurrences(cols, c) == Cardinality({i \in 1..Len(cols) : cols[i] = c})

\* both adapters have run check_and_add_columns to its end on the same
\* table, which existed, for wanted lists that share a column; neither list
\* names a column twice
BothReconciled ==
    /\ \A a \in Adapters : runs[a].pc = "done" /\ runs[a].err # ErrNotFound
    /\ runs["a1"].tbl = runs["a2"].tbl
    /\ Range(runs["a1"].cols) \cap Range(runs["a2"].cols) # {}
    /\ \A a \in Adapters : NoRepeat(runs[a].cols)

\* C23 as stated: when two adapters on one store each run reconcile on the
\* same existing table with overlapping wanted columns, then however their
\* presence checks and add_column steps interleave, both calls end without
\* error and the table has every wanted column exactly once.
C23_ConcurrentReconcile ==
    BothReconciled
        => /\ \A a \in Adapters : runs[a].err = Ok
           /\ \A a \in Adapters : \A c \in Range(runs[a].cols) :
                 Occurrences(disk[runs[a].tbl].cols, c) = 1

\* the calls of the two adapters that end without error leave every wanted
\* column in the table exactly once; a call that fails has failed on the
\* duplicate column and the table has no column twice
ConcurrentStepsAgree ==
    \A a \in Adapters :
        runs[a].pc = "done" /\ runs[a].tbl # ""
            => /\ runs[a].err \in {Ok, ErrNotFound, ErrDupColumn}
               /\ runs[a].err = Ok
                    => \A c \in Range(runs[a].cols) : Occurrences(disk[runs[a].tbl].cols, c) = 1
               /\ \A c \in ColNames : Occurrences(disk[runs[a].tbl].cols, c) <= 1

====
